---- MODULE Spec2Model ----
(***************************************************************************)
(* Hilbert curve generator (hilbert_gen.py).                               *)
(*                                                                         *)
(* hilbert_curve is a Python generator: calling it only creates the        *)
(* generator object, and every next() on it runs the body up to the next   *)
(* yield.  It owns a shapes_gen generator, which in turn iterates          *)
(* four_from_one_gen.  One next() on a curve generator is one action here; *)
(* the nested next(_shape) it performs is part of that action.             *)
(* A failed dict or list lookup (KeyError, IndexError) ends the generator.  *)
(***************************************************************************)
EXTENDS Integers, Sequences, FiniteSets, TLC

\* ---- bounds of the model ------------------------------------------------
MaxPulls == 20
MaxSoloPulls == 256
MaxOrder == 4
MaxStep == 2
MaxStart == 2

Drivers == {1, 2}
StepSizes == {-1, 0} \cup (1..MaxStep)
StartPoints == {<<c, 0 - c>> : c \in 0..MaxStart}

\* value of a local variable that has not been assigned yet
Unbound == -1

VARIABLES
    hc_pc,           \* hilbert_curve: "none" | "created" | "yield" | "fault"
    start_point,     \* hilbert_curve argument
    step_size,       \* hilbert_curve argument
    position,        \* hilbert_curve local
    shape,           \* hilbert_curve local
    previous_shape,  \* hilbert_curve local
    mv_i,            \* number of movements taken from the current move(...) iterator
    out,             \* the Positions yielded so far, in order
    sg_pc,           \* shapes_gen: "none" (not started) | "boot" | "steady" | "fault"
    sg_position,     \* shapes_gen local `position` (the cursor)
    sg_lists,        \* shapes_gen local `lists`: a reference into heap
    f_shape,         \* argument of the current four_from_one_gen iterator
    f_i,             \* number of values taken from the current four_from_one_gen iterator
    pat_out,         \* the patterns yielded by shapes_gen so far, in order
    heap             \* list objects, by reference

vars == <<hc_pc, start_point, step_size, position, shape, previous_shape, mv_i, out,
          sg_pc, sg_position, sg_lists, f_shape, f_i, pat_out, heap>>

sg_vars == <<sg_pc, sg_position, sg_lists, f_shape, f_i, pat_out, heap>>

\* ---- the tables ---------------------------------------------------------
\* s with a wrong last child of pattern 3
s_wrong_child ==
    (1 :> <<1, 2, 2, 3>>) @@
    (2 :> <<2, 1, 1, 4>>) @@
    (3 :> <<3, 4, 4, 2>>) @@
    (4 :> <<4, 3, 3, 2>>)

\* s with pattern 0 as the last child of pattern 1
s_zero_child ==
    (1 :> <<1, 2, 2, 0>>) @@
    (2 :> <<2, 1, 1, 4>>) @@
    (3 :> <<3, 4, 4, 1>>) @@
    (4 :> <<4, 3, 3, 2>>)

\* four_from_one_gen: s
s ==
    (1 :> <<1, 2, 2, 3>>) @@
    (2 :> <<2, 1, 1, 4>>) @@
    (3 :> <<3, 4, 4, 1>>) @@
    (4 :> <<4, 3, 3, 2>>)

\* grid without the row of pattern 3
grid_missing_row ==
    (0 :> ((1 :> <<0, 0>>)  @@ (2 :> <<0, 0>>) @@ (3 :> <<0, 0>>)  @@ (4 :> <<0, 0>>))) @@
    (1 :> ((1 :> <<0, 1>>)  @@ (2 :> <<0, 1>>) @@ (3 :> <<-1, 0>>) @@ (4 :> <<-1, 0>>))) @@
    (2 :> ((1 :> <<1, 0>>)  @@ (2 :> <<1, 0>>) @@ (3 :> <<0, -1>>) @@ (4 :> <<0, -1>>))) @@
    (4 :> ((1 :> <<0, 1>>)  @@ (2 :> <<0, 1>>) @@ (3 :> <<-1, 0>>) @@ (4 :> <<-1, 0>>)))

\* grid with the row of pattern 1 repeated for pattern 3
grid_copied_row ==
    (0 :> ((1 :> <<0, 0>>)  @@ (2 :> <<0, 0>>) @@ (3 :> <<0, 0>>)  @@ (4 :> <<0, 0>>))) @@
    (1 :> ((1 :> <<0, 1>>)  @@ (2 :> <<0, 1>>) @@ (3 :> <<-1, 0>>) @@ (4 :> <<-1, 0>>))) @@
    (2 :> ((1 :> <<1, 0>>)  @@ (2 :> <<1, 0>>) @@ (3 :> <<0, -1>>) @@ (4 :> <<0, -1>>))) @@
    (3 :> ((1 :> <<0, 1>>)  @@ (2 :> <<0, 1>>) @@ (3 :> <<-1, 0>>) @@ (4 :> <<-1, 0>>))) @@
    (4 :> ((1 :> <<0, 1>>)  @@ (2 :> <<0, 1>>) @@ (3 :> <<-1, 0>>) @@ (4 :> <<-1, 0>>)))

\* next_start: grid
grid ==
    (0 :> ((1 :> <<0, 0>>)  @@ (2 :> <<0, 0>>) @@ (3 :> <<0, 0>>)  @@ (4 :> <<0, 0>>))) @@
    (1 :> ((1 :> <<0, 1>>)  @@ (2 :> <<0, 1>>) @@ (3 :> <<-1, 0>>) @@ (4 :> <<-1, 0>>))) @@
    (2 :> ((1 :> <<1, 0>>)  @@ (2 :> <<1, 0>>) @@ (3 :> <<0, -1>>) @@ (4 :> <<0, -1>>))) @@
    (3 :> ((1 :> <<1, 0>>)  @@ (2 :> <<1, 0>>) @@ (3 :> <<0, -1>>) @@ (4 :> <<0, -1>>))) @@
    (4 :> ((1 :> <<0, 1>>)  @@ (2 :> <<0, 1>>) @@ (3 :> <<-1, 0>>) @@ (4 :> <<-1, 0>>)))

\* moves with the row of pattern 1 repeated for pattern 2
moves_copied_row ==
    (0 :> << <<0, 0>> >>) @@
    (1 :> << <<0, 0>>, <<1, 0>>,  <<0, 1>>,  <<-1, 0>> >>) @@
    (2 :> << <<0, 0>>, <<1, 0>>,  <<0, 1>>,  <<-1, 0>> >>) @@
    (3 :> << <<0, 0>>, <<-1, 0>>, <<0, -1>>, <<1, 0>> >>) @@
    (4 :> << <<0, 0>>, <<0, -1>>, <<-1, 0>>, <<0, 1>> >>)

\* moves without the leading (0, 0) of pattern 2
moves_no_leading_zero ==
    (0 :> << <<0, 0>> >>) @@
    (1 :> << <<0, 0>>, <<1, 0>>,  <<0, 1>>,  <<-1, 0>> >>) @@
    (2 :> << <<0, 1>>,  <<1, 0>>,  <<0, -1>> >>) @@
    (3 :> << <<0, 0>>, <<-1, 0>>, <<0, -1>>, <<1, 0>> >>) @@
    (4 :> << <<0, 0>>, <<0, -1>>, <<-1, 0>>, <<0, 1>> >>)

\* move: moves
moves ==
    (0 :> << <<0, 0>> >>) @@
    (1 :> << <<0, 0>>, <<1, 0>>,  <<0, 1>>,  <<-1, 0>> >>) @@
    (2 :> << <<0, 0>>, <<0, 1>>,  <<1, 0>>,  <<0, -1>> >>) @@
    (3 :> << <<0, 0>>, <<-1, 0>>, <<0, -1>>, <<1, 0>> >>) @@
    (4 :> << <<0, 0>>, <<0, -1>>, <<-1, 0>>, <<0, 1>> >>)

\* ---- the pure functions -------------------------------------------------
\* cmb with the wrong component of the translation added to y
cmb_wrong_index(start, translation) ==
    <<start[1] + translation[1], start[2] + translation[1]>>

cmb(start, translation) ==
    <<start[1] + translation[1], start[2] + translation[2]>>

\* calc_step that leaves the y component unscaled
calc_step_y_unscaled(point, step) ==
    <<point[1] * step, point[2]>>

calc_step(point, step) ==
    <<point[1] * step, point[2] * step>>

\* the values four_from_one_gen(sh) yields, in order (KeyError unless sh is a key of s)
four_from_one_gen(sh) == s[sh]

\* the values move(sh, step) yields, in order (KeyError unless sh is a key of moves)
move(sh, step) ==
    [k \in 1..Len(moves[sh]) |-> calc_step(moves[sh][k], step)]

\* grid[p][n] raises KeyError unless p and n are keys
next_start_ok(p, n) ==
    /\ p \in DOMAIN grid
    /\ n \in DOMAIN grid[p]

\* next_start without the scaling by step_size
next_start_unscaled(p, n, step) ==
    grid[p][n]

next_start(p, n, step) ==
    calc_step(grid[p][n], step)

\* one list object shared by all generators (a module-level or default-argument list)
NewListShared(g) == 1

\* `lists = []` makes a new list object: the reference it gets in generator g
NewList(g) == g

\* ---- shapes_gen: one next() ---------------------------------------------
\* SgAppendYield without the lists.append(x) of the second loop
SgAppendYield_boot_only(pc2, pos2, ref, fs, k, h) ==
    LET x == four_from_one_gen(fs)[k] IN
    [ok |-> TRUE, value |-> x, pc |-> pc2, position |-> pos2, lists |-> ref,
     f_shape |-> fs, f_i |-> k,
     heap |-> IF pc2 = "boot" THEN [h EXCEPT ![ref] = Append(@, x)] ELSE h]

\* lists.append(x); yield x   where x is the k-th value of four_from_one_gen(fs)
SgAppendYield(pc2, pos2, ref, fs, k, h) ==
    LET x == four_from_one_gen(fs)[k] IN
    [ok |-> TRUE, value |-> x, pc |-> pc2, position |-> pos2, lists |-> ref,
     f_shape |-> fs, f_i |-> k, heap |-> [h EXCEPT ![ref] = Append(@, x)]]

\* an exception leaves shapes_gen: the generator is finished
SgRaise(g, h) ==
    [ok |-> FALSE, value |-> Unbound, pc |-> "fault", position |-> sg_position[g],
     lists |-> sg_lists[g], f_shape |-> f_shape[g], f_i |-> f_i[g], heap |-> h]

\* first next(): lists = [], position = 0, first value of four_from_one_gen(1)
SgStart(g) ==
    LET ref == NewList(g)
        h   == [heap EXCEPT ![ref] = <<>>]
    IN  IF 1 \in DOMAIN s
        THEN SgAppendYield("boot", 0, ref, 1, 1, h)
        ELSE SgRaise(g, h)

\* SgAdvance without `position += 1`
SgAdvance_no_increment(g) ==
    LET pos2 == sg_position[g]
        L    == heap[sg_lists[g]]
    IN  IF pos2 >= Len(L)
        THEN SgRaise(g, heap)
        ELSE IF L[pos2 + 1] \notin DOMAIN s
             THEN SgRaise(g, heap)
             ELSE SgAppendYield("steady", pos2, sg_lists[g], L[pos2 + 1], 1, heap)

\* SgAdvance without the `position += 1` that follows the first loop
SgAdvance_no_first_increment(g) ==
    LET pos2 == IF sg_pc[g] = "boot" THEN sg_position[g] ELSE sg_position[g] + 1
        L    == heap[sg_lists[g]]
    IN  IF pos2 >= Len(L)
        THEN SgRaise(g, heap)
        ELSE IF L[pos2 + 1] \notin DOMAIN s
             THEN SgRaise(g, heap)
             ELSE SgAppendYield("steady", pos2, sg_lists[g], L[pos2 + 1], 1, heap)

\* a for loop is exhausted: position += 1, then four_from_one_gen(lists[position])
SgAdvance(g) ==
    LET pos2 == sg_position[g] + 1
        L    == heap[sg_lists[g]]
    IN  IF pos2 >= Len(L)
        THEN SgRaise(g, heap)
        ELSE IF L[pos2 + 1] \notin DOMAIN s
             THEN SgRaise(g, heap)
             ELSE SgAppendYield("steady", pos2, sg_lists[g], L[pos2 + 1], 1, heap)

\* the state of generator g after one next(), and the value it yields
shapes_gen(g) ==
    IF sg_pc[g] = "none"
    THEN SgStart(g)
    ELSE IF f_i[g] < Len(four_from_one_gen(f_shape[g]))
         THEN SgAppendYield(sg_pc[g], sg_position[g], sg_lists[g], f_shape[g],
                            f_i[g] + 1, heap)
         ELSE SgAdvance(g)

\* the generator's variables take the values of r
SgStore(g, r) ==
    /\ sg_pc' = [sg_pc EXCEPT ![g] = r.pc]
    /\ sg_position' = [sg_position EXCEPT ![g] = r.position]
    /\ sg_lists' = [sg_lists EXCEPT ![g] = r.lists]
    /\ f_shape' = [f_shape EXCEPT ![g] = r.f_shape]
    /\ f_i' = [f_i EXCEPT ![g] = r.f_i]
    /\ pat_out' = [pat_out EXCEPT ![g] = IF r.ok THEN Append(@, r.value) ELSE @]
    /\ heap' = r.heap

\* ---- hilbert_curve ------------------------------------------------------
\* an exception leaves hilbert_curve: the generator is finished, nothing is yielded
HcRaise(d) ==
    /\ hc_pc' = [hc_pc EXCEPT ![d] = "fault"]
    /\ UNCHANGED <<start_point, step_size, position, shape, previous_shape, mv_i, out>>

\* the first movement of `for movement in move(sh, step_size)` from position pos,
\* with prev the value of previous_shape
HcEnterBlock(d, pos, sh, prev) ==
    IF sh \notin DOMAIN moves
    THEN HcRaise(d)
    ELSE LET p2 == cmb(pos, move(sh, step_size[d])[1]) IN
         /\ hc_pc' = [hc_pc EXCEPT ![d] = "yield"]
         /\ position' = [position EXCEPT ![d] = p2]
         /\ shape' = [shape EXCEPT ![d] = sh]
         /\ previous_shape' = [previous_shape EXCEPT ![d] = prev]
         /\ mv_i' = [mv_i EXCEPT ![d] = 1]
         /\ out' = [out EXCEPT ![d] = Append(@, p2)]
         /\ UNCHANGED <<start_point, step_size>>

\* hilbert_curve(start_point, step_size): the call only creates the generator
Construct(d, sp, st) ==
    /\ hc_pc[d] = "none"
    /\ hc_pc' = [hc_pc EXCEPT ![d] = "created"]
    /\ start_point' = [start_point EXCEPT ![d] = sp]
    /\ step_size' = [step_size EXCEPT ![d] = st]
    /\ UNCHANGED <<position, shape, previous_shape, mv_i, out>>
    /\ UNCHANGED sg_vars

\* the first next(): position = start_point, _shape = shapes_gen(),
\* shape = next(_shape), then the first movement of the first block
FirstPull(d, bound) ==
    /\ hc_pc[d] = "created"
    /\ Len(out[d]) < bound
    /\ LET r == shapes_gen(d) IN
       /\ SgStore(d, r)
       /\ IF r.ok
          THEN HcEnterBlock(d, start_point[d], r.value, Unbound)
          ELSE HcRaise(d)

\* a next() inside a block: the next movement of the current move(...) iterator
StepPull(d, bound) ==
    /\ hc_pc[d] = "yield"
    /\ mv_i[d] < Len(moves[shape[d]])
    /\ Len(out[d]) < bound
    /\ LET p2 == cmb(position[d], move(shape[d], step_size[d])[mv_i[d] + 1]) IN
       /\ position' = [position EXCEPT ![d] = p2]
       /\ mv_i' = [mv_i EXCEPT ![d] = @ + 1]
       /\ out' = [out EXCEPT ![d] = Append(@, p2)]
    /\ UNCHANGED <<hc_pc, start_point, step_size, shape, previous_shape>>
    /\ UNCHANGED sg_vars

\* a next() at the end of a block: previous_shape = shape, shape = next(_shape),
\* position moves by next_start(...), then the first movement of the new block
BlockPull(d, bound) ==
    /\ hc_pc[d] = "yield"
    /\ mv_i[d] = Len(moves[shape[d]])
    /\ Len(out[d]) < bound
    /\ LET r == shapes_gen(d) IN
       /\ SgStore(d, r)
       /\ IF r.ok /\ next_start_ok(shape[d], r.value)
          THEN HcEnterBlock(d,
                            cmb(position[d], next_start(shape[d], r.value, step_size[d])),
                            r.value, shape[d])
          ELSE HcRaise(d)

\* ---- specifications -----------------------------------------------------
Init ==
    /\ hc_pc = [d \in Drivers |-> "none"]
    /\ start_point = [d \in Drivers |-> <<0, 0>>]
    /\ step_size = [d \in Drivers |-> 1]
    /\ position = [d \in Drivers |-> <<0, 0>>]
    /\ shape = [d \in Drivers |-> Unbound]
    /\ previous_shape = [d \in Drivers |-> Unbound]
    /\ mv_i = [d \in Drivers |-> 0]
    /\ out = [d \in Drivers |-> <<>>]
    /\ sg_pc = [d \in Drivers |-> "none"]
    /\ sg_position = [d \in Drivers |-> 0]
    /\ sg_lists = [d \in Drivers |-> Unbound]
    /\ f_shape = [d \in Drivers |-> Unbound]
    /\ f_i = [d \in Drivers |-> 0]
    /\ pat_out = [d \in Drivers |-> <<>>]
    /\ heap = [a \in Drivers |-> <<>>]

\* two curve generators, pulled in any interleaving
Next ==
    \E d \in Drivers :
        \/ \E sp \in StartPoints, st \in StepSizes : Construct(d, sp, st)
        \/ FirstPull(d, MaxPulls)
        \/ StepPull(d, MaxPulls)
        \/ BlockPull(d, MaxPulls)

Spec == Init /\ [][Next]_vars

\* one curve generator, pulled further
PullSolo ==
    \/ FirstPull(1, MaxSoloPulls)
    \/ StepPull(1, MaxSoloPulls)
    \/ BlockPull(1, MaxSoloPulls)

NextSolo ==
    \/ \E sp \in StartPoints, st \in StepSizes : Construct(1, sp, st)
    \/ PullSolo

SpecSolo == Init /\ [][NextSolo]_vars

\* the consumer keeps calling next() on the generator it has constructed
FairSolo == SpecSolo /\ WF_vars(PullSolo)

\* ---- properties ---------------------------------------------------------
Constructed(d) == hc_pc[d] # "none"

\* the first n elements of sequence q agree with sequence e, as far as q goes
PrefixOf(q, e, n) ==
    \A k \in 1..n : Len(q) >= k => q[k] = e[k]

Min(a, b) == IF a <= b THEN a ELSE b

\* C1, as stated: with start (0,0) and step size 1 the first 8 Positions are
\* (0,0),(1,0),(1,1),(0,1),(0,2),(1,2),(1,3),(0,3).
C1_Stated ==
    \A d \in Drivers :
        (Constructed(d) /\ start_point[d] = <<0, 0>> /\ step_size[d] = 1) =>
            PrefixOf(out[d],
                     << <<0, 0>>, <<1, 0>>, <<1, 1>>, <<0, 1>>,
                        <<0, 2>>, <<1, 2>>, <<1, 3>>, <<0, 3>> >>, 8)

\* C1, amended: with start (0,0) and step size 1 the first 8 Positions are
\* (0,0),(1,0),(1,1),(0,1),(0,2),(0,3),(1,3),(1,2): the block of pattern 1, the
\* transition (0,1), then the block of pattern 2 walked with moves(2).
C1_EndToEnd ==
    \A d \in Drivers :
        (Constructed(d) /\ start_point[d] = <<0, 0>> /\ step_size[d] = 1) =>
            PrefixOf(out[d],
                     << <<0, 0>>, <<1, 0>>, <<1, 1>>, <<0, 1>>,
                        <<0, 2>>, <<0, 3>>, <<1, 3>>, <<1, 2>> >>, 8)

C1_Witness ==
    \E d \in Drivers :
        /\ start_point[d] = <<0, 0>> /\ step_size[d] = 1
        /\ hc_pc[d] = "yield" /\ Len(out[d]) = 8

\* C2, as stated: a step size <= 0 is a fault reported when the generator is
\* constructed, so a generator constructed with one never yields a Position.
C2_Stated ==
    \A d \in Drivers :
        (Constructed(d) /\ step_size[d] <= 0) => out[d] = <<>>

\* C3: for every start (x0,y0) and positive step size s the first 4 Positions are
\* (x0,y0), (x0+s,y0), (x0+s,y0+s), (x0,y0+s).
C3_FirstFour ==
    \A d \in Drivers :
        (Constructed(d) /\ step_size[d] > 0) =>
            LET x0 == start_point[d][1]
                y0 == start_point[d][2]
                st == step_size[d]
            IN  PrefixOf(out[d],
                         << <<x0, y0>>, <<x0 + st, y0>>,
                            <<x0 + st, y0 + st>>, <<x0, y0 + st>> >>, 4)

C3_Witness ==
    \E d \in Drivers :
        /\ step_size[d] = 2 /\ start_point[d] = <<1, -1>>
        /\ hc_pc[d] = "yield" /\ Len(out[d]) = 4

\* C4: the first 16 patterns shapes_gen yields are 1,2,2,3, 2,1,1,4, 2,1,1,4, 3,4,4,1.
C4_First16 ==
    \A d \in Drivers :
        PrefixOf(pat_out[d], <<1, 2, 2, 3, 2, 1, 1, 4, 2, 1, 1, 4, 3, 4, 4, 1>>, 16)

C4_Witness ==
    \E d \in Drivers : sg_pc[d] = "steady" /\ Len(pat_out[d]) = 16

Patterns == 1..4

Scaled(p, k) == <<p[1] * k, p[2] * k>>

\* C5: when exactly 4k Positions have been yielded (k >= 1), exactly k patterns have
\* been taken from shapes_gen, shape is the k-th of them and the k-th block has no
\* movement left; the (4k+1)-th Position is the 4k-th moved by the scaled transition
\* from the k-th to the (k+1)-th pattern, which is itself not yielded.
C5_BlockCompletion ==
    \A d \in Drivers :
        LET n == Len(out[d])
            k == n \div 4
        IN  /\ (hc_pc[d] = "yield" /\ n >= 4 /\ n % 4 = 0) =>
                   /\ Len(pat_out[d]) = k
                   /\ shape[d] = pat_out[d][k]
                   /\ mv_i[d] = 4
                   /\ position[d] = out[d][n]
            /\ (hc_pc[d] = "yield" /\ n >= 4 /\ n % 4 = 1) =>
                   /\ Len(pat_out[d]) = k + 1
                   /\ shape[d] = pat_out[d][k + 1]
                   /\ previous_shape[d] = pat_out[d][k]
                   /\ out[d][n] = cmb(out[d][n - 1],
                                      Scaled(grid[pat_out[d][k]][pat_out[d][k + 1]],
                                             step_size[d]))

C5_Witness ==
    \E d \in Drivers :
        /\ hc_pc[d] = "yield" /\ Len(out[d]) = 12
        /\ shape[d] = 2 /\ Len(pat_out[d]) = 3

\* C6: a generator with step size s > 0 and start s * p yields, position by position,
\* s times what a generator with step size 1 and start p yields.
C6_Scaling ==
    \A i, j \in Drivers :
        (/\ Constructed(i) /\ Constructed(j)
         /\ step_size[j] = 1 /\ step_size[i] > 0
         /\ start_point[i] = Scaled(start_point[j], step_size[i])) =>
            \A n \in 1..Min(Len(out[i]), Len(out[j])) :
                out[i][n] = Scaled(out[j][n], step_size[i])

C6_Witness ==
    \E i, j \in Drivers :
        /\ step_size[j] = 1 /\ step_size[i] = 2
        /\ start_point[j] = <<1, -1>> /\ start_point[i] = <<2, -2>>
        /\ Len(out[i]) >= 9 /\ Len(out[j]) >= 9

\* C7: no generator is ever ended by a failed lookup; every pattern yielded by
\* shapes_gen, stored in its list, expanded by four_from_one_gen or held in shape or
\* previous_shape is in 1..4, so the rows of pattern 0 are never read.
C7_PatternsValid ==
    \A d \in Drivers :
        /\ hc_pc[d] # "fault"
        /\ sg_pc[d] # "fault"
        /\ \A k \in 1..Len(pat_out[d]) : pat_out[d][k] \in Patterns
        /\ sg_pc[d] # "none" =>
              /\ f_shape[d] \in Patterns
              /\ \A k \in 1..Len(heap[sg_lists[d]]) : heap[sg_lists[d]][k] \in Patterns
        /\ hc_pc[d] = "yield" =>
              /\ shape[d] \in Patterns
              /\ previous_shape[d] \in Patterns \cup {Unbound}
              /\ previous_shape[d] = Unbound <=> Len(pat_out[d]) = 1

C7_Witness ==
    \E d \in Drivers :
        /\ hc_pc[d] = "yield" /\ sg_pc[d] = "steady"
        /\ shape[d] = 2 /\ previous_shape[d] = 3 /\ f_shape[d] = 4
        /\ {pat_out[d][k] : k \in 1..Len(pat_out[d])} = Patterns

\* generator e has the same position, patterns, cursor and list after the step
Untouched(e) ==
    /\ hc_pc'[e] = hc_pc[e]
    /\ position'[e] = position[e]
    /\ shape'[e] = shape[e]
    /\ previous_shape'[e] = previous_shape[e]
    /\ out'[e] = out[e]
    /\ sg_pc'[e] = sg_pc[e]
    /\ sg_position'[e] = sg_position[e]
    /\ pat_out'[e] = pat_out[e]
    /\ sg_pc[e] # "none" =>
          /\ sg_lists'[e] = sg_lists[e]
          /\ heap'[sg_lists[e]] = heap[sg_lists[e]]

\* the step is a next() on generator d
Pulled(d) ==
    /\ Constructed(d)
    /\ hc_pc'[d] # hc_pc[d] \/ out'[d] # out[d]

\* C8: two generators constructed with the same start and step size yield the same
\* Positions element by element, whatever the interleaving of their next() calls,
\* and a next() on one leaves the position, patterns, cursor and list of the other
\* as they were.
C8_Isolation ==
    /\ [](\A i, j \in Drivers :
            (/\ Constructed(i) /\ Constructed(j)
             /\ start_point[i] = start_point[j] /\ step_size[i] = step_size[j]) =>
                \A n \in 1..Min(Len(out[i]), Len(out[j])) : out[i][n] = out[j][n])
    /\ [][\A d, e \in Drivers : (d # e /\ Pulled(d)) => Untouched(e)]_vars

C8_Witness ==
    /\ start_point[1] = start_point[2] /\ step_size[1] = step_size[2]
    /\ Len(out[1]) = MaxPulls /\ Len(out[2]) = MaxPulls
    /\ sg_position[1] >= 1 /\ sg_position[2] >= 1

\* C9: no generator is ever ended by an exception or exhausted, every next() on a
\* constructed generator yields exactly one Position, and a consumer that keeps
\* calling next() gets every Position up to the bound of the model.
C9_NonTermination ==
    /\ [](\A d \in Drivers : hc_pc[d] # "fault" /\ sg_pc[d] # "fault")
    /\ [][\E d \in Drivers :
             \/ ~Constructed(d) /\ hc_pc'[d] = "created"
             \/ /\ Constructed(d)
                /\ hc_pc'[d] = "yield"
                /\ out'[d] = Append(out[d], position'[d])]_vars
    /\ (Constructed(1) ~> (hc_pc[1] = "yield" /\ Len(out[1]) = MaxSoloPulls))

C9_Witness ==
    /\ hc_pc[1] = "yield" /\ Len(out[1]) = MaxSoloPulls
    /\ sg_pc[1] = "steady" /\ sg_position[1] >= 4

\* C10: once the four bootstrap patterns have been yielded, whenever shapes_gen is
\* suspended with the current expansion complete its list holds 4 * (cursor + 1)
\* entries; in between it holds 4 * cursor entries plus those of the expansion under
\* way, so every advance of the cursor by 1 comes with exactly 4 more entries.
C10_ListLength ==
    \A d \in Drivers :
        sg_pc[d] \in {"boot", "steady"} =>
            LET L == heap[sg_lists[d]] IN
            /\ Len(L) = 4 * sg_position[d] + f_i[d]
            /\ f_i[d] \in 1..4
            /\ f_i[d] = 4 => Len(L) = 4 * (sg_position[d] + 1)
            /\ sg_pc[d] = "boot" <=> sg_position[d] = 0

C10_Witness ==
    \E d \in Drivers :
        /\ sg_pc[d] = "steady" /\ f_i[d] = 4 /\ sg_position[d] = 3
        /\ Len(heap[sg_lists[d]]) = 16

\* the substitution rule of C11
C11_Children ==
    (1 :> <<1, 2, 2, 3>>) @@
    (2 :> <<2, 1, 1, 4>>) @@
    (3 :> <<3, 4, 4, 1>>) @@
    (4 :> <<4, 3, 3, 2>>)

\* C11: with S[0], S[1], ... the patterns shapes_gen yields, S[4i+j] is the j-th child
\* of S[i] (j in 0..3); the list holds exactly the patterns yielded, the cursor is
\* the index i of the entry under expansion, and that entry is the one being
\* expanded, so entries are expanded in order, each once.
C11_Substitution ==
    \A d \in Drivers :
        LET S == pat_out[d]
            n == Len(S)
        IN  /\ \A m \in 0..(n - 1) :
                   S[m + 1] = C11_Children[S[(m \div 4) + 1]][(m % 4) + 1]
            /\ sg_pc[d] # "none" =>
                   /\ heap[sg_lists[d]] = S
                   /\ sg_position[d] = (n - 1) \div 4
                   /\ f_i[d] = ((n - 1) % 4) + 1
                   /\ f_shape[d] = S[sg_position[d] + 1]

C11_Witness ==
    \E d \in Drivers :
        /\ sg_pc[d] = "steady" /\ Len(pat_out[d]) = 32
        /\ sg_position[d] = 7 /\ f_shape[d] = 4 /\ pat_out[d][32] = 2

\* sequence a is a prefix of sequence b
IsPrefix(a, b) ==
    /\ Len(a) <= Len(b)
    /\ \A k \in 1..Len(a) : a[k] = b[k]

\* C12: the cursor of shapes_gen is always below the length of its list and no
\* list lookup fails; when the cursor moves, the entry it moves to was in the list
\* before that next(); the list only grows at its end (entries never change, the
\* length never decreases).
C12_CursorInList ==
    /\ [](\A d \in Drivers :
            /\ sg_pc[d] # "fault"
            /\ sg_pc[d] # "none" =>
                  /\ sg_position[d] >= 0
                  /\ sg_position[d] < Len(heap[sg_lists[d]])
                  /\ f_shape[d] = heap[sg_lists[d]][sg_position[d] + 1])
    /\ [][\A d \in Drivers :
            sg_pc[d] # "none" =>
                /\ sg_lists'[d] = sg_lists[d]
                /\ IsPrefix(heap[sg_lists[d]], heap'[sg_lists[d]])
                /\ sg_position'[d] # sg_position[d] =>
                      /\ sg_position'[d] = sg_position[d] + 1
                      /\ sg_position'[d] < Len(heap[sg_lists[d]])]_vars

C12_Witness ==
    \E d \in Drivers :
        /\ sg_pc[d] = "steady" /\ sg_position[d] = 5 /\ f_i[d] = 1
        /\ Len(heap[sg_lists[d]]) = 21

\* C13: the list of shapes_gen is never shorter than the number of patterns yielded,
\* and when hilbert_curve has yielded n >= 1 Positions it holds exactly ceil(n/4)
\* entries, one per pattern taken so far.
C13_ListGrowth ==
    \A d \in Drivers :
        /\ sg_pc[d] # "none" => Len(heap[sg_lists[d]]) >= Len(pat_out[d])
        /\ (hc_pc[d] = "yield" /\ Len(out[d]) >= 1) =>
               /\ Len(heap[sg_lists[d]]) = (Len(out[d]) + 3) \div 4
               /\ Len(pat_out[d]) = (Len(out[d]) + 3) \div 4

C13_Witness ==
    \E d \in Drivers :
        /\ hc_pc[d] = "yield" /\ Len(out[d]) = 41
        /\ Len(heap[sg_lists[d]]) = 11

\* the first n elements of sequence q, as a set
Firsts(q, n) == {q[k] : k \in 1..n}

\* C14: with start (0,0) and step size 1, for every order n >= 1 up to MaxOrder the
\* first 4^n Positions are pairwise distinct and are exactly the cells of
\* (0..2^n-1) x (0..2^n-1); no Position is yielded twice and no coordinate is negative.
C14_Coverage ==
    \A d \in Drivers :
        (Constructed(d) /\ start_point[d] = <<0, 0>> /\ step_size[d] = 1) =>
            /\ \A n \in 1..MaxOrder :
                   Len(out[d]) >= 4 ^ n =>
                       /\ Firsts(out[d], 4 ^ n) =
                              (0..(2 ^ n - 1)) \X (0..(2 ^ n - 1))
                       /\ Cardinality(Firsts(out[d], 4 ^ n)) = 4 ^ n
            /\ Cardinality(Firsts(out[d], Len(out[d]))) = Len(out[d])
            /\ \A k \in 1..Len(out[d]) : out[d][k][1] >= 0 /\ out[d][k][2] >= 0

C14_Witness ==
    \E d \in Drivers :
        /\ start_point[d] = <<0, 0>> /\ step_size[d] = 1
        /\ hc_pc[d] = "yield" /\ Len(out[d]) = 256
        /\ out[d][256] = <<15, 0>>

Abs(x) == IF x < 0 THEN 0 - x ELSE x

\* C15: for every positive step size s, two consecutive Positions differ by exactly
\* s in one coordinate and by 0 in the other: inside block k by the scaled movement
\* of pattern S[k], from the last Position of block k to the first of block k+1 by
\* the scaled transition from S[k] to S[k+1].
C15_Continuity ==
    \A d \in Drivers :
        (Constructed(d) /\ step_size[d] > 0) =>
            \A n \in 1..(Len(out[d]) - 1) :
                LET dx == out[d][n + 1][1] - out[d][n][1]
                    dy == out[d][n + 1][2] - out[d][n][2]
                    st == step_size[d]
                    S  == pat_out[d]
                IN  /\ {Abs(dx), Abs(dy)} = {0, st}
                    /\ n % 4 = 0 =>
                           <<dx, dy>> = Scaled(grid[S[n \div 4]][S[(n \div 4) + 1]], st)
                    /\ n % 4 # 0 =>
                           <<dx, dy>> = Scaled(moves[S[(n \div 4) + 1]][(n % 4) + 1], st)

C15_Witness ==
    \E d \in Drivers :
        /\ step_size[d] = 2 /\ start_point[d] = <<1, -1>>
        /\ hc_pc[d] = "yield" /\ Len(out[d]) >= 29 /\ Len(out[d]) % 4 = 1
        /\ shape[d] = 4 /\ previous_shape[d] = 1

====
